---- MODULE Spec2Model ----
(***************************************************************************)
(* A model of site-gen (src/src/main.rs): the identifier link resolver     *)
(* replace_uuid_links, the shorthand expander expand_shorthand, the blog   *)
(* indexer process_blog_posts, the directory compiler compile_dir with     *)
(* the per-file pipeline compile_markdown, and the tree emitter            *)
(* emit_directory.                                                         *)
(*                                                                         *)
(* Strings are sequences of one-character strings; positions are the       *)
(* 0-based byte offsets of the Rust code (all modelled text is ASCII).     *)
(* A Rust panic (expect/unwrap/slice out of range) is the outcome "panic", *)
(* an Err(..) return is the outcome "err".                                 *)
(***************************************************************************)
EXTENDS Integers, Sequences, FiniteSets, TLC

VARIABLES
    \* replace_uuid_links
    body,       \* the pieces the input text was built from (input, never written)
    globals,    \* the Global Context: [posts |-> sequence of post mappings]
    text,       \* `text`: the not yet scanned rest of the input
    new_text,   \* `new_text`: the text being rewritten in place
    offset,     \* `offset`: where `text` starts in `new_text`
    rul_pc,     \* "loop" | "ok" | "err" | "panic"
    \* expand_shorthand
    sh_input,   \* the text the function was called with (input, never written)
    table,      \* the replacement table, in iteration order: [from, to]
    sh_i,       \* the table entry the for loop is at
    sh_text,    \* `text`: the not yet scanned rest of the input
    sh_new_text,\* `new_text`
    sh_offset,  \* `offset`
    sh_pc,      \* "loop" | "done" | "panic"
    \* main: process_blog_posts, then compile_dir
    tree,       \* the source directory: a sequence of entries (input)
    blog_dir,   \* config.blog, as the path of a directory of the tree (input)
    ignore,     \* the ignore list handed to compile_dir (input)
    handlebars, \* the names of the registered templates (input)
    site_pc,    \* where main is: "start" | "blog" | "sort" | "indexed" |
                \* "compile" | "compiled" | "err" | "panic"
    blog_todo,  \* the entries process_blog_posts_dir has still to visit
    posts,      \* `posts`: the Vec the indexer collects into
    stack,      \* the compile_dir calls in progress, the innermost last
    cm_pc,      \* where compile_markdown is in the file at hand
    cm,         \* the locals of compile_markdown: fm, md, tmpl_name
    calls,      \* the calls compile_markdown made for the file at hand
    site,       \* the Directory compile_dir returned
    \* emit_directory
    out,        \* the Directory to emit (input, never written)
    fs0,        \* the target directory before the emit (input, never written)
    fs,         \* the target directory: what is at each path below it
    emit_stack, \* the emit_directory calls in progress, the innermost last
    emit_pc     \* "emit" | "done" | "err"

rulVars == <<body, globals, text, new_text, offset, rul_pc>>

rulLocals == <<body, text, new_text, offset, rul_pc>>

shVars == <<sh_input, table, sh_i, sh_text, sh_new_text, sh_offset, sh_pc>>

siteInputs == <<tree, blog_dir, ignore, handlebars>>

blogVars == <<blog_todo, posts>>

compileVars == <<stack, cm_pc, cm, calls, site>>

siteVars == <<siteInputs, site_pc, blogVars, compileVars>>

emitVars == <<out, fs0, fs, emit_stack, emit_pc>>

vars == <<rulVars, shVars, siteVars, emitVars>>

----------------------------------------------------------------------------
(* Bounds *)

\* At most this many pieces (plain runs and links) make up a body.
MaxPieces == 3
\* At most this many posts are in the Global Context.
MaxPosts == 2
\* A text handed to expand_shorthand has at most this many characters.
MaxTextLen == 5
\* The source directory lists at most this many entries.
MaxEntries == 3
\* The Directory handed to emit_directory has at most this many nodes at
\* its top.
MaxNodes == 2
\* The target directory is looked at down to this depth.
MaxDepth == 2

----------------------------------------------------------------------------
(* Strings *)

\* text[a..b] of Rust: the bytes at 0-based positions a .. b-1.
Slice(t, a, b) == SubSeq(t, a + 1, b)

\* text[a] of Rust.
At(t, a) == t[a + 1]

Min(S) == CHOOSE x \in S : \A y \in S : x <= y

StartsWith(t, c) == Len(t) > 0 /\ t[1] = c

\* The characters of the class [a-zA-Z0-9].
AlnumChars ==
    { "a", "b", "c", "d", "e", "f", "g", "h", "i", "j", "k", "l", "m",
      "n", "o", "p", "q", "r", "s", "t", "u", "v", "w", "x", "y", "z",
      "A", "B", "C", "D", "E", "F", "G", "H", "I", "J", "K", "L", "M",
      "N", "O", "P", "Q", "R", "S", "T", "U", "V", "W", "X", "Y", "Z",
      "0", "1", "2", "3", "4", "5", "6", "7", "8", "9" }

\* String::replace_range(a..b, r): valid only when a <= b <= len.
RangeOk(t, a, b) == 0 <= a /\ a <= b /\ b <= Len(t)

ReplaceRange(t, a, b, r) == Slice(t, 0, a) \o r \o Slice(t, b, Len(t))

----------------------------------------------------------------------------
(* replace_uuid_links: the regex \[[^\]]+\]\(:([a-zA-Z0-9]+)\)            *)

\* The end of the longest run of [a-zA-Z0-9] that starts at position s.
AlnumRunEnd(t, s) ==
    Min({ k \in s..Len(t) : k = Len(t) \/ At(t, k) \notin AlnumChars })

\* A match of the regex that starts at position i: "[", one or more
\* characters other than "]", "](:", the identifier (group 1), ")".
\* The label cannot hold a "]", so it ends at the first "]" after i; the
\* identifier is followed by ")", so it is the whole alphanumeric run.
NoMatch == [found |-> FALSE, start |-> 0, end |-> 0]

MatchAt(t, i) ==
    IF i >= Len(t) \/ At(t, i) # "[" THEN NoMatch
    ELSE LET closers == { j \in (i + 1)..(Len(t) - 1) : At(t, j) = "]" }
         IN  IF closers = {} THEN NoMatch
             ELSE LET j == Min(closers)
                      s == j + 3
                  IN  IF j < i + 2 \/ j + 2 >= Len(t) THEN NoMatch
                      ELSE IF At(t, j + 1) # "(" \/ At(t, j + 2) # ":" THEN NoMatch
                      ELSE LET e == AlnumRunEnd(t, s)
                           IN  IF e > s /\ e < Len(t) /\ At(t, e) = ")"
                               THEN [found |-> TRUE, start |-> s, end |-> e]
                               ELSE NoMatch

\* re.captures(&text): the leftmost match; start/end are those of group 1.
Captures(t) ==
    LET starts == { i \in 0..(Len(t) - 1) : MatchAt(t, i).found }
    IN  IF starts = {} THEN NoMatch ELSE MatchAt(t, Min(starts))

\* The loop over the posts. Every post is visited, and each must carry an
\* `id` and a `title` (expect); the url is the `link` of the last post
\* whose id equals the identifier, "" when there is none.
RECURSIVE LastLink(_, _)
LastLink(pl, id) ==
    IF pl = <<>> THEN <<>>
    ELSE LET p == pl[Len(pl)]
         IN  IF p.id = id THEN p.link
             ELSE LastLink(SubSeq(pl, 1, Len(pl) - 1), id)

PostsPanic(pl) ==
    \E i \in 1..Len(pl) :
        "id" \notin DOMAIN pl[i] \/ "title" \notin DOMAIN pl[i]

NextOffsetNoColon(off, start, url) == off + start + Len(url)

\* offset += uuid_part.start() + url.len() - 1
NextOffset(off, start, url) == off + start + Len(url) - 1

\* One iteration of the loop, as the outcome it has and the values it
\* leaves in the three locals.
RulStep(st, g) ==
    LET link == Captures(st.text)
        id == Slice(st.text, link.start, link.end)
        url == LastLink(g.posts, id)
        a == st.offset + link.start - 1
        b == st.offset + link.end
    IN  IF ~link.found THEN [st EXCEPT !.pc = "ok"]
        ELSE IF PostsPanic(g.posts) THEN [st EXCEPT !.pc = "panic"]
        ELSE IF url = <<>> THEN [st EXCEPT !.pc = "err"]
        ELSE IF ~RangeOk(st.new_text, a, b) THEN [st EXCEPT !.pc = "panic"]
        ELSE [pc |-> "loop",
              new_text |-> ReplaceRange(st.new_text, a, b, url),
              offset |-> NextOffset(st.offset, link.start, url),
              text |-> Slice(st.text, link.end, Len(st.text))]

RulStart(t) == [pc |-> "loop", text |-> t, new_text |-> t, offset |-> 0]

\* The whole call: the loop run to its end.
RECURSIVE RulRun(_, _)
RulRun(st, g) == IF st.pc # "loop" THEN st ELSE RulRun(RulStep(st, g), g)

ReplaceUuidLinks(t, g) == RulRun(RulStart(t), g)

(* Inputs *)

Plain(cs) == [kind |-> "plain", chars |-> cs]
Link(label, id) == [kind |-> "link", label |-> label, id |-> id]

PieceText(p) ==
    IF p.kind = "plain" THEN p.chars
    ELSE <<"[">> \o p.label \o <<"]", "(", ":">> \o p.id \o <<")">>

RECURSIVE BodyText(_)
BodyText(ps) ==
    IF ps = <<>> THEN <<>> ELSE PieceText(Head(ps)) \o BodyText(Tail(ps))

IdA == <<"a">>
IdBC == <<"b", "c">>
IdZ == <<"z", "9">>

Pieces ==
    { Plain(<<"x">>), Link(<<"t">>, IdA), Link(<<"u", "v">>, IdBC),
      Link(<<"w">>, IdZ) }

SeqsUpTo(S, n) == UNION { [1..k -> S] : k \in 0..n }

Bodies == SeqsUpTo(Pieces, MaxPieces)

\* Links as the indexer builds them: rooted at "/".
LinkShort == <<"/">>
LinkLong == <<"/", "b", "l", "o", "g">>

Title == <<"T">>

PostSet ==
    { [id |-> IdA, title |-> Title, link |-> LinkShort],
      [id |-> IdA, title |-> Title, link |-> LinkLong],
      [id |-> IdBC, title |-> Title, link |-> LinkShort],
      [id |-> IdBC, title |-> Title, link |-> LinkLong],
      [id |-> IdA, link |-> LinkLong],
      [title |-> Title, link |-> LinkLong] }

PostLists == SeqsUpTo(PostSet, MaxPosts)

RulIdle ==
    /\ body = <<>>
    /\ globals = [posts |-> <<>>]
    /\ text = <<>>
    /\ new_text = <<>>
    /\ offset = 0
    /\ rul_pc = "idle"

ShIdle ==
    /\ sh_input = <<>>
    /\ table = <<>>
    /\ sh_i = 0
    /\ sh_text = <<>>
    /\ sh_new_text = <<>>
    /\ sh_offset = 0
    /\ sh_pc = "idle"

SiteIdle ==
    /\ tree = <<>>
    /\ blog_dir = <<>>
    /\ ignore = {}
    /\ handlebars = {}
    /\ site_pc = "idle"
    /\ blog_todo = <<>>
    /\ posts = <<>>
    /\ stack = <<>>
    /\ cm_pc = "none"
    /\ cm = [fm |-> <<>>, md |-> <<>>, tmpl_name |-> <<>>]
    /\ calls = <<>>
    /\ site = <<>>

EmitIdle ==
    /\ out = <<>>
    /\ fs0 = <<>>
    /\ fs = <<>>
    /\ emit_stack = <<>>
    /\ emit_pc = "idle"

InitRul ==
    /\ ShIdle
    /\ SiteIdle
    /\ EmitIdle
    /\ body \in Bodies
    /\ globals \in { [posts |-> ps] : ps \in PostLists }
    /\ text = BodyText(body)
    /\ new_text = BodyText(body)
    /\ offset = 0
    /\ rul_pc = "loop"

RulState == [pc |-> rul_pc, text |-> text, new_text |-> new_text, offset |-> offset]

RulSet(st) ==
    /\ rul_pc' = st.pc
    /\ text' = st.text
    /\ new_text' = st.new_text
    /\ offset' = st.offset
    /\ UNCHANGED <<body, globals, shVars, siteVars, emitVars>>

\* An iteration that finds a link and rewrites its target.
RulRewrite ==
    /\ rul_pc = "loop"
    /\ RulStep(RulState, globals).pc = "loop"
    /\ RulSet(RulStep(RulState, globals))

\* The iteration that finds no further link: Ok(new_text).
RulFinish ==
    /\ rul_pc = "loop"
    /\ RulStep(RulState, globals).pc = "ok"
    /\ RulSet(RulStep(RulState, globals))

\* bail!("uuid in text ({}) should correspond to a post")
RulBail ==
    /\ rul_pc = "loop"
    /\ RulStep(RulState, globals).pc = "err"
    /\ RulSet(RulStep(RulState, globals))

\* An expect(..) on a post without `id` or `title` fails.
RulPanic ==
    /\ rul_pc = "loop"
    /\ RulStep(RulState, globals).pc = "panic"
    /\ RulSet(RulStep(RulState, globals))

NextRul == RulRewrite \/ RulFinish \/ RulBail \/ RulPanic

SpecRul == InitRul /\ [][NextRul]_vars

(* C1, C2 *)

IsLink(p) == p.kind = "link"

LinkPieces(ps) == { i \in 1..Len(ps) : IsLink(ps[i]) }

\* Every post carries `id`, `title` and `link`, and no two share an id.
PostsComplete(pl) ==
    /\ \A i \in 1..Len(pl) : DOMAIN pl[i] = {"id", "title", "link"}
    /\ \A i, j \in 1..Len(pl) : pl[i].id = pl[j].id => i = j

\* Every identifier of the body is the id of a post.
Resolvable(ps, pl) ==
    \A i \in LinkPieces(ps) :
        \E k \in 1..Len(pl) : "id" \in DOMAIN pl[k] /\ pl[k].id = ps[i].id

\* The link of the post with this id (there is exactly one).
LinkOf(pl, id) ==
    pl[CHOOSE k \in 1..Len(pl) : "id" \in DOMAIN pl[k] /\ pl[k].id = id].link

\* The body with every `:id` target replaced by the post's link.
ResolvedPiece(p, pl) ==
    IF IsLink(p)
    THEN <<"[">> \o p.label \o <<"]", "(">> \o LinkOf(pl, p.id) \o <<")">>
    ELSE p.chars

RECURSIVE Resolved(_, _)
Resolved(ps, pl) ==
    IF ps = <<>> THEN <<>>
    ELSE ResolvedPiece(Head(ps), pl) \o Resolved(Tail(ps), pl)

C1Case ==
    /\ rul_pc # "idle"
    /\ Cardinality(LinkPieces(body)) >= 2
    /\ PostsComplete(globals.posts)
    /\ Resolvable(body, globals.posts)

\* C1: with two or more identifier links in the body, each naming a post
\* of a posts list whose posts all carry id, title and link, the call
\* neither fails nor panics; it returns the body with every `:id` target
\* replaced by the matching post's link and all other characters in place,
\* and after each rewrite the not yet scanned text sits in new_text exactly
\* at `offset`, so a rewrite never shifts where a later one is made.
TheoremC1 ==
    C1Case =>
        /\ rul_pc \in {"loop", "ok"}
        /\ rul_pc = "ok" => new_text = Resolved(body, globals.posts)
        /\ rul_pc = "loop" =>
            /\ offset <= Len(new_text)
            /\ Slice(new_text, offset, Len(new_text)) = text

\* Two links to different posts, one link shorter and one longer than the
\* `:id` it replaces, both rewritten.
WitnessC1 ==
    /\ C1Case
    /\ rul_pc = "ok"
    /\ \E i, j \in LinkPieces(body) :
        /\ i < j
        /\ Len(LinkOf(globals.posts, body[i].id)) < Len(body[i].id) + 1
        /\ Len(LinkOf(globals.posts, body[j].id)) > Len(body[j].id) + 1
    /\ new_text = Resolved(body, globals.posts)
    /\ new_text # BodyText(body)

\* A body of one identifier link, and a posts list in which the post with
\* that id carries just `id` and `link`.
C2Case ==
    /\ rul_pc # "idle"
    /\ Len(body) = 1
    /\ IsLink(body[1])
    /\ \E k \in 1..Len(globals.posts) :
        /\ DOMAIN globals.posts[k] = {"id", "link"}
        /\ globals.posts[k].id = body[1].id
    /\ \A k, l \in 1..Len(globals.posts) :
        /\ "id" \in DOMAIN globals.posts[k]
        /\ globals.posts[k].id = globals.posts[l].id => k = l

\* C2: given a post carrying just `id` and `link` and a body with one
\* identifier link to that id, replace_uuid_links succeeds and returns the
\* body with the link target replaced by the post's link.
ClaimC2 ==
    (C2Case /\ rul_pc # "loop") =>
        /\ rul_pc = "ok"
        /\ new_text = Resolved(body, globals.posts)

----------------------------------------------------------------------------
(* expand_shorthand; the patterns of the model are literal strings *)

\* re.find(text): the leftmost occurrence of the pattern.
Find(t, pat) ==
    LET n == Len(pat)
        starts == { i \in 0..(Len(t) - n) : Slice(t, i, i + n) = pat }
    IN  IF starts = {} THEN NoMatch
        ELSE [found |-> TRUE, start |-> Min(starts), end |-> Min(starts) + n]

\* String::insert_str(idx, s): valid only when idx <= len.
InsertStr(t, idx, s) == Slice(t, 0, idx) \o s \o Slice(t, idx, Len(t))

\* One iteration of the while loop for the table entry e.
ShStep(st, e) ==
    LET mat == Find(st.text, e.from)
        start == st.offset + mat.start
        end == st.offset + mat.end
        removed == ReplaceRange(st.new_text, start, end, <<>>)
    IN  IF ~RangeOk(st.new_text, start, end) THEN [st EXCEPT !.pc = "panic"]
        ELSE IF mat.start > Len(removed) THEN [st EXCEPT !.pc = "panic"]
        ELSE IF end > Len(st.text)
             THEN [pc |-> "panic",
                   new_text |-> InsertStr(removed, mat.start, e.to),
                   offset |-> st.offset + start + Len(e.to) - 1,
                   text |-> st.text]
        ELSE [pc |-> "loop",
              new_text |-> InsertStr(removed, mat.start, e.to),
              offset |-> st.offset + start + Len(e.to) - 1,
              text |-> Slice(st.text, end, Len(st.text))]

Entry(from, to) == [from |-> from, to |-> to]

EntryDash == Entry(<<"-", "-">>, <<"Z">>)
EntryY == Entry(<<"y">>, <<"M", "N">>)

\* The tables: a JSON object has no two entries with the same key.
Tables == { <<>>, <<EntryDash>>, <<EntryY>>, <<EntryDash, EntryY>>, <<EntryY, EntryDash>> }

ShChars == {"a", "-", "y"}

ShTexts == SeqsUpTo(ShChars, MaxTextLen)

InitSh ==
    /\ RulIdle
    /\ SiteIdle
    /\ EmitIdle
    /\ sh_input \in ShTexts
    /\ table \in Tables
    /\ sh_i = 1
    /\ sh_text = sh_input
    /\ sh_new_text = sh_input
    /\ sh_offset = 0
    /\ sh_pc = "loop"

ShState ==
    [pc |-> sh_pc, text |-> sh_text, new_text |-> sh_new_text, offset |-> sh_offset]

ShSet(st) ==
    /\ sh_pc' = st.pc
    /\ sh_text' = st.text
    /\ sh_new_text' = st.new_text
    /\ sh_offset' = st.offset
    /\ UNCHANGED <<sh_input, table, sh_i, rulVars, siteVars, emitVars>>

ShInLoop == sh_pc = "loop" /\ sh_i <= Len(table)

\* while let Some(mat) = re.find(text): one occurrence replaced.
ShReplace ==
    /\ ShInLoop
    /\ Find(sh_text, table[sh_i].from).found
    /\ ShStep(ShState, table[sh_i]).pc = "loop"
    /\ ShSet(ShStep(ShState, table[sh_i]))

\* replace_range, insert_str or the slice text[end..] is out of range.
ShPanic ==
    /\ ShInLoop
    /\ Find(sh_text, table[sh_i].from).found
    /\ ShStep(ShState, table[sh_i]).pc = "panic"
    /\ ShSet(ShStep(ShState, table[sh_i]))

\* The pattern is found no more: the for loop goes on to the next entry,
\* with `offset` back at 0 and `text`, `new_text` as they are.
ShNextEntry ==
    /\ ShInLoop
    /\ ~Find(sh_text, table[sh_i].from).found
    /\ sh_i' = sh_i + 1
    /\ sh_offset' = 0
    /\ UNCHANGED <<sh_input, table, sh_text, sh_new_text, sh_pc, rulVars, siteVars, emitVars>>

\* The table is exhausted: new_text is returned.
ShReturn ==
    /\ sh_pc = "loop"
    /\ sh_i > Len(table)
    /\ sh_pc' = "done"
    /\ UNCHANGED <<sh_input, table, sh_i, sh_text, sh_new_text, sh_offset, rulVars, siteVars, emitVars>>

NextSh == ShReplace \/ ShPanic \/ ShNextEntry \/ ShReturn

SpecSh == InitSh /\ [][NextSh]_vars

(* C3 *)

\* Every non-overlapping occurrence of pat in t replaced, left to right.
RECURSIVE ReplaceAll(_, _, _)
ReplaceAll(t, pat, to) ==
    LET m == Find(t, pat)
    IN  IF ~m.found THEN t
        ELSE Slice(t, 0, m.start) \o to \o ReplaceAll(Slice(t, m.end, Len(t)), pat, to)

\* The entries applied in table order. No replacement of the model holds a
\* character of any pattern, so inserted text is never matched again.
RECURSIVE Expanded(_, _)
Expanded(t, tbl) ==
    IF tbl = <<>> THEN t
    ELSE Expanded(ReplaceAll(t, Head(tbl).from, Head(tbl).to), Tail(tbl))

\* C3: expand_shorthand returns the text with, for every table entry in
\* order, every non-overlapping occurrence of the pattern replaced.
ClaimC3 ==
    (sh_pc \notin {"idle", "loop"}) =>
        /\ sh_pc = "done"
        /\ sh_new_text = Expanded(sh_input, table)

\* The part of C3 the code does satisfy: a table of one entry whose
\* pattern occurs at most once in the text.
ShSingleOccurrence ==
    (/\ sh_pc \notin {"idle", "loop"}
     /\ Len(table) = 1
     /\ LET m == Find(sh_input, table[1].from)
        IN  m.found =>
                ~Find(Slice(sh_input, m.end, Len(sh_input)), table[1].from).found)
    => (sh_pc = "done" /\ sh_new_text = Expanded(sh_input, table))

----------------------------------------------------------------------------
(* file_helpers *)

Last(q) == q[Len(q)]
Front(q) == SubSeq(q, 1, Len(q) - 1)

Max(S) == CHOOSE x \in S : \A y \in S : x >= y

\* The positions (1-based) of the dots of a file name.
Dots(name) == { i \in 1..Len(name) : name[i] = "." }

\* Path::extension / Path::file_stem split the name at its last dot; a
\* name without a dot, or whose only dot is the first character, has no
\* extension and is its own stem.
HasExt(name) == Dots(name) # {} /\ Max(Dots(name)) > 1

\* get_file_ext: Err when the path has no extension.
GetFileExt(name) == SubSeq(name, Max(Dots(name)) + 1, Len(name))

\* get_file_stem
GetFileStem(name) ==
    IF HasExt(name) THEN SubSeq(name, 1, Max(Dots(name)) - 1) ELSE name

Md == <<"m", "d">>
DotHtml == <<".", "h", "t", "m", "l">>
IndexMd == <<"i", "n", "d", "e", "x", ".", "m", "d">>

\* out_name: the stem with ".html" pushed onto it.
OutName(name) == GetFileStem(name) \o DotHtml

\* get_date
GetDate(v) == v.date

----------------------------------------------------------------------------
(* The source tree *)

File(name, fm, md) == [kind |-> "file", name |-> name, fm |-> fm, md |-> md]
Dir(name, entries) == [kind |-> "dir", name |-> name, entries |-> entries]

\* A metadata value that is not a string (a number, a list).
NotAString == <<"#">>

IsStr(v) == v # NotAString

NoFm == <<>>

\* read_dir lists no name twice.
DistinctNames(es) == \A i, j \in 1..Len(es) : es[i].name = es[j].name => i = j

RootName == <<"s", "i", "t", "e">>

\* The directory config.blog names: the source root or one of its
\* directories.
BlogRoot ==
    IF blog_dir = <<>> THEN Dir(RootName, tree)
    ELSE tree[CHOOSE i \in 1..Len(tree) : tree[i].name = blog_dir[1]]

----------------------------------------------------------------------------
(* process_blog_posts *)

\* The byte of a character of a date.
Byte(c) ==
    IF c = "-" THEN 45
    ELSE 47 + (CHOOSE i \in 1..10 :
                 <<"0", "1", "2", "3", "4", "5", "6", "7", "8", "9">>[i] = c)

\* str::cmp: the comparison of the bytes, a proper prefix being less.
RECURSIVE StrCmp(_, _)
StrCmp(a, b) ==
    IF a = <<>> /\ b = <<>> THEN "Equal"
    ELSE IF a = <<>> THEN "Less"
    ELSE IF b = <<>> THEN "Greater"
    ELSE IF Byte(Head(a)) < Byte(Head(b)) THEN "Less"
    ELSE IF Byte(Head(a)) > Byte(Head(b)) THEN "Greater"
    ELSE StrCmp(Tail(a), Tail(b))

ByDateAsc(a, b) == StrCmp(GetDate(a), GetDate(b))

\* The closure handed to sort_by: get_date(b).cmp(get_date(a)).
ByDateDesc(a, b) == StrCmp(GetDate(b), GetDate(a))

\* Vec::sort_by is a stable sort: x goes behind every element that the
\* comparison does not put after it.
RECURSIVE InsertSorted(_, _)
InsertSorted(x, q) ==
    IF q = <<>> THEN <<x>>
    ELSE IF ByDateDesc(Head(q), x) = "Greater" THEN <<x>> \o q
    ELSE <<Head(q)>> \o InsertSorted(x, Tail(q))

RECURSIVE SortByDate(_)
SortByDate(q) ==
    IF q = <<>> THEN <<>> ELSE InsertSorted(Last(q), SortByDate(Front(q)))

\* ensure_key(fm, "date", "str")
EnsureDate(fm) == "date" \in DOMAIN fm /\ IsStr(fm.date)

\* link: "/blog", the directory of the file relative to the blog
\* directory, and the out name, joined by "/".
RECURSIVE JoinPath(_)
JoinPath(comps) ==
    IF comps = <<>> THEN <<>> ELSE <<"/">> \o Head(comps) \o JoinPath(Tail(comps))

PostLink(rel, name) ==
    <<"/", "b", "l", "o", "g">> \o JoinPath(rel) \o <<"/">> \o OutName(name)

\* fm.insert("link", ..): the metadata with `link` set.
PostOf(fm, link) ==
    [k \in DOMAIN fm \cup {"link"} |-> IF k = "link" THEN link ELSE fm[k]]

Call(rel, e) == [op |-> "dir", rel |-> rel, e |-> e]
Item(rel, e) == [op |-> "entry", rel |-> rel, e |-> e]

Items(rel, es) == [i \in 1..Len(es) |-> Item(rel, es[i])]

BlogHead == Head(blog_todo)

BlogAt(op, kind) ==
    /\ site_pc = "blog"
    /\ blog_todo # <<>>
    /\ BlogHead.op = op
    /\ BlogHead.e.kind = kind

BlogKeep == UNCHANGED <<rulVars, shVars, siteInputs, compileVars, emitVars>>

\* process_blog_posts: the call of process_blog_posts_dir on the blog
\* directory.
BlogStart ==
    /\ site_pc = "start"
    /\ site_pc' = "blog"
    /\ blog_todo' = <<Call(<<>>, BlogRoot)>>
    /\ posts' = <<>>
    /\ BlogKeep

\* A directory whose name starts with "_": return Ok(()).
BlogSkipDir ==
    /\ BlogAt("dir", "dir")
    /\ StartsWith(BlogHead.e.name, "_")
    /\ blog_todo' = Tail(blog_todo)
    /\ UNCHANGED <<site_pc, posts>>
    /\ BlogKeep

\* for entry in read_dir(dir_path)
BlogReadDir ==
    /\ BlogAt("dir", "dir")
    /\ ~StartsWith(BlogHead.e.name, "_")
    /\ blog_todo' = Items(BlogHead.rel, BlogHead.e.entries) \o Tail(blog_todo)
    /\ UNCHANGED <<site_pc, posts>>
    /\ BlogKeep

\* path.is_dir(): the recursive call.
BlogRecurse ==
    /\ BlogAt("entry", "dir")
    /\ blog_todo' =
        <<Call(BlogHead.rel \o <<BlogHead.e.name>>, BlogHead.e)>> \o Tail(blog_todo)
    /\ UNCHANGED <<site_pc, posts>>
    /\ BlogKeep

BlogSkipped(name) == StartsWith(name, "_") \/ name = IndexMd

\* A file with a leading underscore, or index.md: continue.
BlogSkipFile ==
    /\ BlogAt("entry", "file")
    /\ BlogSkipped(BlogHead.e.name)
    /\ blog_todo' = Tail(blog_todo)
    /\ UNCHANGED <<site_pc, posts>>
    /\ BlogKeep

\* get_file_ext(&path)? on a file without an extension.
BlogNoExt ==
    /\ BlogAt("entry", "file")
    /\ ~BlogSkipped(BlogHead.e.name)
    /\ ~HasExt(BlogHead.e.name)
    /\ site_pc' = "err"
    /\ UNCHANGED <<blog_todo, posts>>
    /\ BlogKeep

\* A file of another extension than md: nothing is done.
BlogNotMd ==
    /\ BlogAt("entry", "file")
    /\ ~BlogSkipped(BlogHead.e.name)
    /\ HasExt(BlogHead.e.name)
    /\ GetFileExt(BlogHead.e.name) # Md
    /\ blog_todo' = Tail(blog_todo)
    /\ UNCHANGED <<site_pc, posts>>
    /\ BlogKeep

BlogIsPost(name) == ~BlogSkipped(name) /\ HasExt(name) /\ GetFileExt(name) = Md

\* ensure_key(fm, "date", "str")? fails.
BlogBadDate ==
    /\ BlogAt("entry", "file")
    /\ BlogIsPost(BlogHead.e.name)
    /\ ~EnsureDate(BlogHead.e.fm)
    /\ site_pc' = "err"
    /\ UNCHANGED <<blog_todo, posts>>
    /\ BlogKeep

\* posts.push(json!{fm}), the link inserted.
BlogPush ==
    /\ BlogAt("entry", "file")
    /\ BlogIsPost(BlogHead.e.name)
    /\ EnsureDate(BlogHead.e.fm)
    /\ posts' = Append(posts, PostOf(BlogHead.e.fm, PostLink(BlogHead.rel, BlogHead.e.name)))
    /\ blog_todo' = Tail(blog_todo)
    /\ UNCHANGED site_pc
    /\ BlogKeep

\* The walk is over: posts.sort_by(..), and main puts the result under
\* "posts" in the globals.
BlogSort ==
    /\ site_pc = "blog"
    /\ blog_todo = <<>>
    /\ posts' = SortByDate(posts)
    /\ globals' = [posts |-> SortByDate(posts)]
    /\ site_pc' = "indexed"
    /\ UNCHANGED <<rulLocals, shVars, siteInputs, blog_todo, compileVars, emitVars>>

NextBlog ==
    \/ BlogStart
    \/ BlogSkipDir
    \/ BlogReadDir
    \/ BlogRecurse
    \/ BlogSkipFile
    \/ BlogNoExt
    \/ BlogNotMd
    \/ BlogBadDate
    \/ BlogPush
    \/ BlogSort

(* Inputs of the indexer *)

D2023a == <<"2", "0", "2", "3", "-", "0", "1", "-", "0", "1">>
D2024 == <<"2", "0", "2", "4", "-", "0", "5", "-", "0", "5">>
D2023b == <<"2", "0", "2", "3", "-", "0", "6", "-", "0", "1">>
D9 == <<"9">>

Dates == {D2023a, D2024, D2023b, D9}

NameA == <<"a", ".", "m", "d">>
NameB == <<"b", ".", "m", "d">>
NameC == <<"c", ".", "m", "d">>
NameHidden == <<"_", "e", ".", "m", "d">>
NameMk == <<"m", "k">>
NamePng == <<"p", ".", "p", "n", "g">>
NameD == <<"d">>
NameDrafts == <<"_", "d">>
NameIg == <<"i", "g">>

TemplateP == <<"p">>

Dated(d) == [template |-> TemplateP, date |-> d]

BlogEntries ==
    { File(n, Dated(d), <<"x">>) : n \in {NameA, NameB, NameC}, d \in Dates }
    \cup { File(NameA, [template |-> TemplateP], <<"x">>),
           File(NameB, [template |-> TemplateP, date |-> NotAString], <<"x">>),
           File(NameHidden, Dated(D2024), <<"x">>),
           File(IndexMd, Dated(D2024), <<"x">>),
           File(NameMk, NoFm, <<>>),
           File(NamePng, NoFm, <<>>),
           Dir(NameD, <<File(NameC, Dated(D2023b), <<"x">>)>>),
           Dir(NameDrafts, <<File(NameC, Dated(D2023b), <<"x">>)>>) }

BlogTrees == { t \in SeqsUpTo(BlogEntries, MaxEntries) : DistinctNames(t) }

BlogDirs(t) ==
    {<<>>} \cup { <<t[i].name>> : i \in { k \in 1..Len(t) : t[k].kind = "dir" } }

CompileIdle ==
    /\ stack = <<>>
    /\ cm_pc = "none"
    /\ cm = [fm |-> <<>>, md |-> <<>>, tmpl_name |-> <<>>]
    /\ calls = <<>>
    /\ site = <<>>

InitBlog ==
    /\ ShIdle
    /\ EmitIdle
    /\ body = <<>> /\ text = <<>> /\ new_text = <<>> /\ offset = 0 /\ rul_pc = "idle"
    /\ globals = [posts |-> <<>>]
    /\ tree \in BlogTrees
    /\ blog_dir \in BlogDirs(tree)
    /\ ignore = {}
    /\ handlebars = {TemplateP}
    /\ site_pc = "start"
    /\ blog_todo = <<>>
    /\ posts = <<>>
    /\ CompileIdle

SpecBlog == InitBlog /\ [][NextBlog]_vars

----------------------------------------------------------------------------
(* compile_dir, compile_file, compile_markdown *)

Page(html) == [kind |-> "Page", html |-> html]
DirNode(dir) == [kind |-> "Dir", dir |-> dir]
Named(name, node) == [name |-> name, node |-> node]

\* markdown::to_html and Handlebars::render are external: their results
\* are kept as what they were made from.
ToHtml(md) == [markdown |-> md]
Render(name, ctx) == [template |-> name, context |-> ctx]

PostsKey == <<"p", "o", "s", "t", "s">>

\* replace_globals: every string value "@key" whose key the globals have
\* is replaced by the value of the globals; the globals have "posts" only.
ReplaceGlobals(fm, g) ==
    [k \in DOMAIN fm |->
        IF IsStr(fm[k]) /\ StartsWith(fm[k], "@") /\ Tail(fm[k]) = PostsKey
        THEN g.posts
        ELSE fm[k]]

\* fm.insert("content", ..)
WithContent(fm, content) ==
    [k \in DOMAIN fm \cup {"content"} |-> IF k = "content" THEN content ELSE fm[k]]

\* One call of compile_dir: the entries left to visit and the nodes pushed.
Frame(name, entries) == [name |-> name, todo |-> entries, directory |-> <<>>]

Top == Last(stack)
Cur == Head(Top.todo)

SetTop(f) == [stack EXCEPT ![Len(stack)] = f]

\* The entry at hand is done and leaves no node.
Advance == SetTop([Top EXCEPT !.todo = Tail(@)])

\* directory.push((name, node))
PushNode(name, node) ==
    SetTop([Top EXCEPT !.todo = Tail(@),
                       !.directory = Append(@, Named(name, node))])

CompileAt(kind) ==
    /\ site_pc = "compile"
    /\ cm_pc = "none"
    /\ stack # <<>>
    /\ Top.todo # <<>>
    /\ Cur.kind = kind

IgnoredComparedByPath(name) == (<<"/">> \o name) \in ignore

\* ignore.contains(&file_name.to_owned())
Ignored(name) == name \in ignore

Skipped(name) == StartsWith(name, "_") \/ Ignored(name)

CompileKeep == UNCHANGED <<rulVars, shVars, siteInputs, blogVars, emitVars>>

\* main: compile_dir on config.source.
CompileStart ==
    /\ site_pc = "indexed"
    /\ site_pc' = "compile"
    /\ stack' = <<Frame(RootName, tree)>>
    /\ UNCHANGED <<cm_pc, cm, calls, site>>
    /\ CompileKeep

\* file_name.starts_with("_"): continue.
CompileSkipUnderscore ==
    /\ \E k \in {"file", "dir"} : CompileAt(k)
    /\ StartsWith(Cur.name, "_")
    /\ stack' = Advance
    /\ UNCHANGED <<site_pc, cm_pc, cm, calls, site>>
    /\ CompileKeep

\* ignore.contains(file_name): continue.
CompileSkipIgnored ==
    /\ \E k \in {"file", "dir"} : CompileAt(k)
    /\ ~StartsWith(Cur.name, "_")
    /\ Ignored(Cur.name)
    /\ stack' = Advance
    /\ UNCHANGED <<site_pc, cm_pc, cm, calls, site>>
    /\ CompileKeep

\* compile_file: get_file_ext(path)? on a file without an extension.
CompileNoExt ==
    /\ CompileAt("file")
    /\ ~Skipped(Cur.name)
    /\ ~HasExt(Cur.name)
    /\ site_pc' = "err"
    /\ UNCHANGED <<stack, cm_pc, cm, calls, site>>
    /\ CompileKeep

\* compile_file: another extension than "md", Ok(None).
CompileUnhandled ==
    /\ CompileAt("file")
    /\ ~Skipped(Cur.name)
    /\ HasExt(Cur.name)
    /\ GetFileExt(Cur.name) # Md
    /\ stack' = Advance
    /\ UNCHANGED <<site_pc, cm_pc, cm, calls, site>>
    /\ CompileKeep

\* compile_file: "md", compile_markdown is entered.
CompileMarkdown ==
    /\ CompileAt("file")
    /\ ~Skipped(Cur.name)
    /\ HasExt(Cur.name)
    /\ GetFileExt(Cur.name) = Md
    /\ cm_pc' = "split"
    /\ cm' = [fm |-> <<>>, md |-> <<>>, tmpl_name |-> <<>>]
    /\ calls' = <<>>
    /\ UNCHANGED <<site_pc, stack, site>>
    /\ CompileKeep

CmAt(pc) == site_pc = "compile" /\ cm_pc = pc

\* let (fm, md) = split_frontmatter(path)?
CmSplitFrontmatter ==
    /\ CmAt("split")
    /\ cm' = [cm EXCEPT !.fm = Cur.fm, !.md = Cur.md]
    /\ calls' = Append(calls, "split_frontmatter")
    /\ cm_pc' = "globals"
    /\ UNCHANGED <<site_pc, stack, site>>
    /\ CompileKeep

\* let fm = replace_globals(fm, globals)
CmReplaceGlobals ==
    /\ CmAt("globals")
    /\ cm' = [cm EXCEPT !.fm = ReplaceGlobals(cm.fm, globals)]
    /\ calls' = Append(calls, "replace_globals")
    /\ cm_pc' = "links"
    /\ UNCHANGED <<site_pc, stack, site>>
    /\ CompileKeep

\* md = replace_uuid_links(md, globals)?
CmReplaceUuidLinks ==
    /\ CmAt("links")
    /\ calls' = Append(calls, "replace_uuid_links")
    /\ LET r == ReplaceUuidLinks(cm.md, globals)
       IN  IF r.pc = "ok"
           THEN /\ cm' = [cm EXCEPT !.md = r.new_text]
                /\ cm_pc' = "template"
                /\ UNCHANGED site_pc
           ELSE /\ site_pc' = r.pc
                /\ UNCHANGED <<cm, cm_pc>>
    /\ UNCHANGED <<stack, site>>
    /\ CompileKeep

HasTemplate(fm) == "template" \in DOMAIN fm /\ IsStr(fm.template)

\* fm.get("template").expect(..).as_str().expect(..)
CmTemplateName ==
    /\ CmAt("template")
    /\ HasTemplate(cm.fm)
    /\ cm' = [cm EXCEPT !.tmpl_name = cm.fm.template]
    /\ cm_pc' = "markdown"
    /\ UNCHANGED <<site_pc, stack, calls, site>>
    /\ CompileKeep

\* The metadata has no `template`, or not a string: expect panics.
CmTemplatePanic ==
    /\ CmAt("template")
    /\ ~HasTemplate(cm.fm)
    /\ site_pc' = "panic"
    /\ UNCHANGED <<stack, cm_pc, cm, calls, site>>
    /\ CompileKeep

\* let content = markdown::to_html(&md); fm.insert("content", content)
CmMarkdown ==
    /\ CmAt("markdown")
    /\ cm' = [cm EXCEPT !.fm = WithContent(cm.fm, ToHtml(cm.md))]
    /\ calls' = Append(calls, "markdown::to_html")
    /\ cm_pc' = "render"
    /\ UNCHANGED <<site_pc, stack, site>>
    /\ CompileKeep

\* handlebars.render(&tmpl_name, &fm)?; back in compile_dir the page is
\* pushed under the out name.
CmRender ==
    /\ CmAt("render")
    /\ cm.tmpl_name \in handlebars
    /\ calls' = Append(calls, "render")
    /\ stack' = PushNode(OutName(Cur.name), Page(Render(cm.tmpl_name, cm.fm)))
    /\ cm_pc' = "none"
    /\ UNCHANGED <<site_pc, cm, site>>
    /\ CompileKeep

\* render fails: no template of that name is registered.
CmRenderErr ==
    /\ CmAt("render")
    /\ cm.tmpl_name \notin handlebars
    /\ calls' = Append(calls, "render")
    /\ site_pc' = "err"
    /\ UNCHANGED <<stack, cm_pc, cm, site>>
    /\ CompileKeep

\* meta.is_dir(): the recursive call of compile_dir.
CompileEnterDir ==
    /\ CompileAt("dir")
    /\ ~Skipped(Cur.name)
    /\ stack' = Append(stack, Frame(Cur.name, Cur.entries))
    /\ UNCHANGED <<site_pc, cm_pc, cm, calls, site>>
    /\ CompileKeep

CompileAtEnd ==
    /\ site_pc = "compile"
    /\ cm_pc = "none"
    /\ stack # <<>>
    /\ Top.todo = <<>>

\* The recursive call returns: directory.push((file_name, Node::Dir(dir))).
CompileLeaveDir ==
    /\ CompileAtEnd
    /\ Len(stack) > 1
    /\ LET parent == stack[Len(stack) - 1]
           filled == [parent EXCEPT
                        !.todo = Tail(@),
                        !.directory = Append(@, Named(Top.name, DirNode(Top.directory)))]
       IN  stack' = Append(SubSeq(stack, 1, Len(stack) - 2), filled)
    /\ UNCHANGED <<site_pc, cm_pc, cm, calls, site>>
    /\ CompileKeep

\* The outermost call returns Ok(directory).
CompileReturn ==
    /\ CompileAtEnd
    /\ Len(stack) = 1
    /\ site' = Top.directory
    /\ stack' = <<>>
    /\ site_pc' = "compiled"
    /\ UNCHANGED <<cm_pc, cm, calls>>
    /\ CompileKeep

NextCompile ==
    \/ CompileStart
    \/ CompileSkipUnderscore
    \/ CompileSkipIgnored
    \/ CompileNoExt
    \/ CompileUnhandled
    \/ CompileMarkdown
    \/ CmSplitFrontmatter
    \/ CmReplaceGlobals
    \/ CmReplaceUuidLinks
    \/ CmTemplateName
    \/ CmTemplatePanic
    \/ CmMarkdown
    \/ CmRender
    \/ CmRenderErr
    \/ CompileEnterDir
    \/ CompileLeaveDir
    \/ CompileReturn

(* Inputs of main *)

NameK == <<"k", ".", "m", "d">>
NameN == <<"n", ".", "m", "d">>
NameU == <<"u", ".", "m", "d">>
NameTemplates == <<"t", "p", "l">>
TemplateQ == <<"q">>

Meta(d, id) == [template |-> TemplateP, date |-> d, id |-> id, title |-> Title]

FileK == File(NameK, Meta(D9, IdZ), <<"x">>)

SiteEntries ==
    { File(NameA, Meta(D2023a, IdA), <<"x">>),
      File(NameB, Meta(D2024, IdBC), BodyText(<<Link(<<"t">>, IdA)>>)),
      File(NameC, [template |-> TemplateP, date |-> D2023b, id |-> IdBC], <<"x">>),
      File(NameN, [date |-> D2023b, id |-> IdBC, title |-> Title], <<"x">>),
      File(NameU, [template |-> TemplateQ, id |-> IdBC, title |-> Title], <<"x">>),
      File(NameHidden, Meta(D2024, IdBC), <<"x">>),
      File(IndexMd, [template |-> TemplateP, posts |-> <<"@">> \o PostsKey], <<"x">>),
      File(NameMk, NoFm, <<>>),
      File(NamePng, NoFm, <<>>),
      Dir(NameD, <<FileK>>),
      Dir(NameDrafts, <<FileK>>),
      Dir(NameIg, <<FileK>>) }

SiteTrees == { t \in SeqsUpTo(SiteEntries, MaxEntries) : DistinctNames(t) }

\* main: the ignore list of the configuration, and config.templates.
InitSite ==
    /\ ShIdle
    /\ EmitIdle
    /\ body = <<>> /\ text = <<>> /\ new_text = <<>> /\ offset = 0 /\ rul_pc = "idle"
    /\ globals = [posts |-> <<>>]
    /\ tree \in SiteTrees
    /\ blog_dir \in BlogDirs(tree)
    /\ ignore = {NameIg, NameTemplates}
    /\ handlebars = {TemplateP}
    /\ site_pc = "start"
    /\ blog_todo = <<>>
    /\ posts = <<>>
    /\ CompileIdle

NextSite == NextBlog \/ NextCompile

SpecSite == InitSite /\ [][NextSite]_vars

(* C4, C5, C7, C8, C9 *)

Range(q) == { q[i] : i \in 1..Len(q) }

\* Every entry below a directory listing, with the names of the
\* directories that lead to it.
RECURSIVE Walk(_, _)
Walk(rel, es) ==
    UNION { {[rel |-> rel, e |-> es[i]]}
            \cup (IF es[i].kind = "dir"
                  THEN Walk(rel \o <<es[i].name>>, es[i].entries)
                  ELSE {})
          : i \in 1..Len(es) }

\* The paths of the nodes of a Directory.
RECURSIVE NodePaths(_, _)
NodePaths(prefix, dir) ==
    UNION { {prefix \o <<dir[i].name>>}
            \cup (IF dir[i].node.kind = "Dir"
                  THEN NodePaths(prefix \o <<dir[i].name>>, dir[i].node.dir)
                  ELSE {})
          : i \in 1..Len(dir) }

IsMdFile(e) == e.kind = "file" /\ HasExt(e.name) /\ GetFileExt(e.name) = Md

\* The names on the way to an entry, its own included.
Components(w) == Range(w.rel) \cup {w.e.name}

Underscored(w) == \E c \in Components(w) : StartsWith(c, "_")

InIgnoreList(w) == \E c \in Components(w) : c \in ignore

\* Where compile_dir would put the node of an entry.
OutPath(w) ==
    w.rel \o <<IF w.e.kind = "file" THEN OutName(w.e.name) ELSE w.e.name>>

\* The names of the pages pushed so far by the compile_dir call at hand.
PagesInProgress ==
    { Top.directory[k].name :
        k \in { i \in 1..Len(Top.directory) : Top.directory[i].node.kind = "Page" } }

CompileStopped == site_pc \in {"err", "panic"} /\ stack # <<>>

\* C4: during compile_dir a regular file that is not ignored and is not a
\* `.md` file, whatever its name or extension, causes no error and leaves
\* no node: the walk never stops at such a file, and every page of the
\* finished tree is the page of an `.md` file.
ClaimC4 ==
    /\ (CompileStopped /\ Cur.kind = "file") => IsMdFile(Cur)
    /\ site_pc = "compiled" =>
        \A w \in Walk(<<>>, tree) :
            (w.e.kind = "file" /\ ~IsMdFile(w.e)) => OutPath(w) \notin NodePaths(<<>>, site)

\* C5: compiling a content file whose metadata has no `template` key
\* ends with an error value returned by compile_markdown, and no node is
\* pushed for the file.
ClaimC5 ==
    (/\ stack # <<>>
     /\ Top.todo # <<>>
     /\ IsMdFile(Cur)
     /\ "template" \notin DOMAIN Cur.fm
     /\ cm_pc = "template")
    => /\ site_pc \in {"compile", "err"}
       /\ OutName(Cur.name) \notin PagesInProgress

\* C9: for every content file compile_markdown makes these calls, each
\* once and in this order: frontmatter extraction, global-reference
\* resolution, identifier link resolution, shorthand expansion, markdown
\* conversion, template render.
ClaimC9 ==
    (site_pc \in {"compile", "compiled"} /\ cm_pc = "none" /\ calls # <<>>)
    => calls = <<"split_frontmatter", "replace_globals", "replace_uuid_links",
                 "expand_shorthand", "markdown::to_html", "render">>

\* The calls compile_markdown does make for a file it renders.
PipelineAsCoded ==
    (site_pc \in {"compile", "compiled"} /\ cm_pc = "none" /\ calls # <<>>)
    => calls = <<"split_frontmatter", "replace_globals", "replace_uuid_links",
                 "markdown::to_html", "render">>

Indexed == site_pc \in {"indexed", "compile", "compiled"}

PostLinks == { posts[i].link : i \in 1..Len(posts) }

BlogWalk == Walk(<<>>, BlogRoot.entries)

\* C7: an entry whose name starts with "_" is left out, with everything
\* beneath it, of the compiled tree and of the indexed posts; an entry
\* whose name is in the ignore list is left out of the compiled tree, and
\* the posts beneath it are indexed all the same.
TheoremC7 ==
    /\ Indexed =>
        \A w \in BlogWalk :
            IsMdFile(w.e) =>
                /\ (Underscored(w) \/ StartsWith(BlogRoot.name, "_"))
                    => PostLink(w.rel, w.e.name) \notin PostLinks
                /\ (/\ InIgnoreList(w)
                    /\ ~Underscored(w)
                    /\ ~StartsWith(BlogRoot.name, "_")
                    /\ w.e.name # IndexMd)
                    => PostLink(w.rel, w.e.name) \in PostLinks
    /\ site_pc = "compiled" =>
        \A w \in Walk(<<>>, tree) :
            (Underscored(w) \/ InIgnoreList(w)) => OutPath(w) \notin NodePaths(<<>>, site)

\* A `_d` and an ignored `ig` directory, each with a post in it, have
\* been walked by the indexer and by the compiler; a third directory is in
\* the compiled tree.
WitnessC7 ==
    /\ site_pc = "compiled"
    /\ blog_dir = <<>>
    /\ \E w \in BlogWalk : IsMdFile(w.e) /\ w.rel = <<NameDrafts>>
    /\ \E w \in BlogWalk : IsMdFile(w.e) /\ w.rel = <<NameIg>>
    /\ PostLink(<<NameIg>>, NameK) \in PostLinks
    /\ PostLink(<<NameDrafts>>, NameK) \notin PostLinks
    /\ \E w \in Walk(<<>>, tree) : w.rel = <<NameD>> /\ OutPath(w) \in NodePaths(<<>>, site)

Count(q, x) == Cardinality({ i \in 1..Len(q) : q[i] = x })

IsPermutation(p, q) ==
    /\ Len(p) = Len(q)
    /\ \A x \in Range(p) \cup Range(q) : Count(p, x) = Count(q, x)

DescendingDates(q) ==
    \A i \in 1..(Len(q) - 1) : StrCmp(q[i].date, q[i + 1].date) # "Less"

DatesOf(q) == [i \in 1..Len(q) |-> q[i].date]

\* C8: the sort at the end of process_blog_posts leaves a permutation of
\* the collected posts in which no post has a `date` less, as a string,
\* than the one after it; posts collected with the dates 2023-01-01,
\* 2024-05-05, 2023-06-01 come out as 2024-05-05, 2023-06-01, 2023-01-01.
TheoremC8 ==
    [][(site_pc = "blog" /\ site_pc' = "indexed") =>
        /\ IsPermutation(posts, posts')
        /\ DescendingDates(posts')
        /\ globals'.posts = posts'
        /\ DatesOf(posts) = <<D2023a, D2024, D2023b>>
            => DatesOf(posts') = <<D2024, D2023b, D2023a>>]_vars

\* The three posts of the example, listed by the directory in the order
\* 2023-01-01, 2024-05-05, 2023-06-01, have been indexed and sorted.
WitnessC8 ==
    /\ site_pc = "indexed"
    /\ blog_dir = <<>>
    /\ Len(tree) = 3
    /\ \A i \in 1..3 : IsMdFile(tree[i]) /\ EnsureDate(tree[i].fm)
    /\ <<tree[1].fm.date, tree[2].fm.date, tree[3].fm.date>> = <<D2023a, D2024, D2023b>>
    /\ DatesOf(posts) = <<D2024, D2023b, D2023a>>

----------------------------------------------------------------------------
(* emit_directory *)

EmitNames == {"a", "b"}

\* The paths below the target directory; <<>> is the target itself.
Paths == SeqsUpTo(EmitNames, MaxDepth)

Absent == [kind |-> "none"]
DirVal == [kind |-> "dir"]
FileVal(c) == [kind |-> "file", content |-> c]

IsPrefix(p, q) == Len(p) <= Len(q) /\ SubSeq(q, 1, Len(p)) = p

RemoveNothing(f, target) == f

RemoveSiblings(f, target) ==
    [p \in DOMAIN f |-> IF IsPrefix(Front(target), p) /\ p # Front(target)
                        THEN Absent ELSE f[p]]

\* if target.is_file() { remove_file } if target.is_dir() { remove_dir_all }
RemoveTarget(f, target) ==
    [p \in DOMAIN f |-> IF IsPrefix(target, p) THEN Absent ELSE f[p]]

\* fs::write(target, html): the directory of the target must exist.
CanWrite(f, target) == f[Front(target)].kind = "dir"

WriteFile(f, target, html) == [f EXCEPT ![target] = FileVal(html)]

\* fs::create_dir_all(&target): the directory and those above it.
CanCreateDirAll(f, target) ==
    \A p \in DOMAIN f : IsPrefix(p, target) => f[p].kind # "file"

CreateDirAll(f, target) ==
    [p \in DOMAIN f |-> IF IsPrefix(p, target) THEN DirVal ELSE f[p]]

\* One call of emit_directory: its target and the nodes left to emit.
EmitFrame(base, dir) == [base |-> base, todo |-> dir]

EmitTop == Last(emit_stack)
EmitCur == Head(EmitTop.todo)
EmitTarget == EmitTop.base \o <<EmitCur.name>>

EmitAt(kind) ==
    /\ emit_pc = "emit"
    /\ emit_stack # <<>>
    /\ EmitTop.todo # <<>>
    /\ EmitCur.node.kind = kind

EmitNext == [emit_stack EXCEPT ![Len(emit_stack)].todo = Tail(@)]

EmitKeep == UNCHANGED <<rulVars, shVars, siteVars, out, fs0>>

\* Node::Page(html): what is at the target is removed, the page written.
EmitPage ==
    /\ EmitAt("Page")
    /\ CanWrite(RemoveTarget(fs, EmitTarget), EmitTarget)
    /\ fs' = WriteFile(RemoveTarget(fs, EmitTarget), EmitTarget, EmitCur.node.html)
    /\ emit_stack' = EmitNext
    /\ UNCHANGED emit_pc
    /\ EmitKeep

\* fs::write fails: the target directory does not exist.
EmitPageErr ==
    /\ EmitAt("Page")
    /\ ~CanWrite(RemoveTarget(fs, EmitTarget), EmitTarget)
    /\ fs' = RemoveTarget(fs, EmitTarget)
    /\ emit_pc' = "err"
    /\ UNCHANGED emit_stack
    /\ EmitKeep

\* Node::Dir(dir): what is at the target is removed, the directory
\* created, and emit_directory called on it.
EmitDir ==
    /\ EmitAt("Dir")
    /\ CanCreateDirAll(RemoveTarget(fs, EmitTarget), EmitTarget)
    /\ fs' = CreateDirAll(RemoveTarget(fs, EmitTarget), EmitTarget)
    /\ emit_stack' = Append(EmitNext, EmitFrame(EmitTarget, EmitCur.node.dir))
    /\ UNCHANGED emit_pc
    /\ EmitKeep

\* The loop of a call is over: Ok(()).
EmitReturn ==
    /\ emit_pc = "emit"
    /\ emit_stack # <<>>
    /\ EmitTop.todo = <<>>
    /\ emit_stack' = Front(emit_stack)
    /\ emit_pc' = IF Len(emit_stack) = 1 THEN "done" ELSE "emit"
    /\ UNCHANGED fs
    /\ EmitKeep

NextEmit == EmitPage \/ EmitPageErr \/ EmitDir \/ EmitReturn

(* Inputs of the emitter *)

HtmlNew == <<"n", "e", "w">>
HtmlOld == <<"o", "l", "d">>

\* The Directory nodes one level down.
InnerDirs ==
    { <<>>,
      <<Named("a", Page(HtmlNew))>>,
      <<Named("b", Page(HtmlNew))>>,
      <<Named("a", Page(HtmlNew)), Named("b", Page(HtmlNew))>>,
      <<Named("a", DirNode(<<>>))>> }

OutNodes == {Page(HtmlNew)} \cup { DirNode(d) : d \in InnerDirs }

OutDirectories ==
    SeqsUpTo({ Named(n, x) : n \in EmitNames, x \in OutNodes }, MaxNodes)

At1(n, v) == [path |-> <<n>>, val |-> v]
At2(n, m, v) == [path |-> <<n, m>>, val |-> v]

\* What a previous run may have left at a name of the target directory.
Leftovers(n) ==
    { {},
      {At1(n, FileVal(HtmlOld))},
      {At1(n, DirVal)},
      {At1(n, DirVal), At2(n, "a", FileVal(HtmlOld))},
      {At1(n, DirVal), At2(n, "b", FileVal(HtmlOld))},
      {At1(n, DirVal), At2(n, "a", DirVal)},
      {At1(n, DirVal), At2(n, "a", FileVal(HtmlOld)), At2(n, "b", FileVal(HtmlOld))} }

Target(present) ==
    [p \in Paths |->
        IF p = <<>> THEN DirVal
        ELSE IF \E r \in present : r.path = p
             THEN (CHOOSE r \in present : r.path = p).val
             ELSE Absent]

\* The target directory with what is left in it, or no target directory.
Targets ==
    { Target(x \cup y) : x \in Leftovers("a"), y \in Leftovers("b") }
    \cup { [p \in Paths |-> Absent] }

InitEmit ==
    /\ RulIdle
    /\ ShIdle
    /\ SiteIdle
    /\ out \in OutDirectories
    /\ fs0 \in Targets
    /\ fs = fs0
    /\ emit_stack = <<EmitFrame(<<>>, out)>>
    /\ emit_pc = "emit"

SpecEmit == InitEmit /\ [][NextEmit]_vars

(* C6, C10 *)

\* No two nodes of a Directory, at any depth, share a name with a sibling.
RECURSIVE UniqueSiblings(_)
UniqueSiblings(dir) ==
    /\ \A i, j \in 1..Len(dir) : dir[i].name = dir[j].name => i = j
    /\ \A i \in 1..Len(dir) :
        dir[i].node.kind = "Dir" => UniqueSiblings(dir[i].node.dir)

\* The names present in the target directly below the path p.
ChildrenAt(f, p) ==
    { n \in EmitNames : Len(p) < MaxDepth /\ f[p \o <<n>>].kind # "none" }

\* The target holds the nodes of dir below the path base: a file with the
\* text of each page, and for each directory node a directory with
\* exactly the children of the node.
RECURSIVE Holds(_, _, _)
Holds(f, base, dir) ==
    \A i \in 1..Len(dir) :
        LET p == base \o <<dir[i].name>>
            node == dir[i].node
        IN  IF node.kind = "Page" THEN f[p] = FileVal(node.html)
            ELSE /\ f[p] = DirVal
                 /\ ChildrenAt(f, p) = { node.dir[k].name : k \in 1..Len(node.dir) }
                 /\ Holds(f, p, node.dir)

\* C6: after a successful emit of a tree with unique sibling names, every
\* path the tree names holds exactly its node, whatever was at the path
\* before: a file where the tree has a directory, a directory where it
\* has a page, or stale children of a directory.
TheoremC6 ==
    (emit_pc = "done" /\ UniqueSiblings(out)) => Holds(fs, <<>>, out)

\* An emit that replaced a file by a directory, a directory with a stale
\* child by a page, and a directory by one that lost a stale child.
WitnessC6 ==
    /\ emit_pc = "done"
    /\ UniqueSiblings(out)
    /\ \E p \in NodePaths(<<>>, out) : fs0[p].kind = "file" /\ fs[p].kind = "dir"
    /\ \E p \in NodePaths(<<>>, out) :
        /\ fs0[p].kind = "dir" /\ fs[p].kind = "file"
        /\ ChildrenAt(fs0, p) # {}
    /\ Holds(fs, <<>>, out)

\* C10: every entry that was in the target before the emit and whose path
\* does not occur in the new tree is left as it was.
ClaimC10 ==
    \A p \in Paths :
        (emit_pc # "idle" /\ fs0[p].kind # "none" /\ p \notin NodePaths(<<>>, out))
        => fs[p] = fs0[p]

\* The path lies neither at nor below a path of the new tree.
Outside(p, dir) == \A q \in NodePaths(<<>>, dir) : ~IsPrefix(q, p)

\* C10, amended: every entry that was in the target before the emit and
\* lies neither at nor beneath a path of the new tree is left as it was,
\* during the emit and after it, whether it succeeds or fails.
TheoremC10 ==
    \A p \in Paths :
        (emit_pc # "idle" /\ fs0[p].kind # "none" /\ Outside(p, out))
        => fs[p] = fs0[p]

\* A finished emit that changed the target and left in place a stale
\* directory and the stale file in it.
WitnessC10 ==
    /\ emit_pc = "done"
    /\ fs # fs0
    /\ \E p, q \in Paths :
        /\ Len(p) = 1 /\ Len(q) = 2 /\ IsPrefix(p, q)
        /\ Outside(p, out)
        /\ fs[p] = DirVal /\ fs0[p] = DirVal
        /\ fs[q] = fs0[q] /\ fs[q] = FileVal(HtmlOld)

====
